---- MODULE Spec2Model ----
(***************************************************************************)
(* Parametric curves of the repository: the quadratic B-spline             *)
(* (work/mybspline.h) and the closed Lane-Riesenfeld subdivision curve     *)
(* (work/closedsubdivisioncurve.h).                                        *)
(*                                                                         *)
(* A C++ float is modelled as an exact rational <<num, den>> with den > 0  *)
(* in lowest terms, extended by the IEEE non-finite values                 *)
(* <<1,0>> = +inf, <<-1,0>> = -inf, <<0,0>> = NaN.  Rounding is not        *)
(* modelled; the parameters and points drawn below are small dyadic        *)
(* numbers wherever a claim is confirmed, for which binary32 arithmetic    *)
(* is exact.  A 3D vector is a triple of floats.                           *)
(***************************************************************************)
EXTENDS Integers, Sequences, FiniteSets

VARIABLES
  pc,                \* position of the object: "new", "fit", "ready"
  _controlPoints,    \* MyB_spline / ClosedSubdivisionCurve control points
  _knotVector,       \* MyB_spline::_knotVector
  _p,                \* PCurve::_p, the evaluation result
  t_arg,             \* parameter t of the last eval call
  c,                 \* constructor argument: control points (direct mode / polygon)
  p,                 \* constructor argument of fit mode: sample points
  n_arg,             \* constructor argument of fit mode: target count n
  N,                 \* leastSquaresFit's local basis matrix
  row,               \* leastSquaresFit's loop variable i
  heap,              \* content of the memory behind an empty DVector<float>
  _subdividedPoints, \* ClosedSubdivisionCurve::_subdividedPoints
  _degree,           \* ClosedSubdivisionCurve::_degree
  index              \* eval's local lower index of the last subdivision eval

vars == <<pc, _controlPoints, _knotVector, _p, t_arg, c, p, n_arg, N, row,
          heap, _subdividedPoints, _degree, index>>

----------------------------------------------------------------------------
(* Bounds *)

MaxN == 4          \* largest number of B-spline control points
TSteps == 4        \* parameter grid: multiples of 1/TSteps
MaxD == 2          \* largest derivative order requested of eval
MaxM == 4          \* largest number of sample points of a fit
MaxPoly == 3       \* largest control polygon of the subdivision curve
MaxR == 2          \* largest subdivision degree

(* The degree of the B-spline: int k = 2 *)
Degree == 2

----------------------------------------------------------------------------
(* float arithmetic *)

Abs(x) == IF x < 0 THEN -x ELSE x
Sign(x) == IF x < 0 THEN -1 ELSE IF x > 0 THEN 1 ELSE 0

RECURSIVE GCD(_, _)
GCD(a, b) == IF b = 0 THEN a ELSE GCD(b, a % b)

NaN == <<0, 0>>
Inf(s) == <<s, 0>>
Norm(num, den) ==
  LET g == GCD(Abs(num), den) IN <<num \div g, den \div g>>
Flt(i) == <<i, 1>>
IsNaN(a) == a = NaN
IsInf(a) == a[2] = 0 /\ a[1] # 0
IsZero(a) == a[2] # 0 /\ a[1] = 0

(* the values of a float: see the head of the module *)
Float == Int \X Int

FNeg(a) == <<-a[1], a[2]>>
FAdd[a \in Float, b \in Float] ==
  IF IsNaN(a) \/ IsNaN(b) THEN NaN
  ELSE IF IsInf(a) /\ IsInf(b) THEN (IF a = b THEN a ELSE NaN)
  ELSE IF IsInf(a) THEN a
  ELSE IF IsInf(b) THEN b
  ELSE Norm(a[1] * b[2] + b[1] * a[2], a[2] * b[2])
FSub[a \in Float, b \in Float] == FAdd[a, FNeg(b)]
FMul[a \in Float, b \in Float] ==
  IF IsNaN(a) \/ IsNaN(b) THEN NaN
  ELSE IF IsInf(a) \/ IsInf(b)
    THEN (IF IsZero(a) \/ IsZero(b) THEN NaN ELSE Inf(Sign(a[1]) * Sign(b[1])))
  ELSE Norm(a[1] * b[1], a[2] * b[2])
FDiv[a \in Float, b \in Float] ==
  IF IsNaN(a) \/ IsNaN(b) THEN NaN
  ELSE IF IsZero(b)
    THEN (IF IsZero(a) THEN NaN ELSE Inf(Sign(a[1])))
  ELSE IF IsInf(b)
    THEN (IF IsInf(a) THEN NaN ELSE Flt(0))
  ELSE IF IsInf(a) THEN Inf(Sign(a[1]) * Sign(b[1]))
  ELSE Norm(a[1] * b[2] * Sign(b[1]), a[2] * Abs(b[1]))
FLt[a \in Float, b \in Float] ==
  IF IsNaN(a) \/ IsNaN(b) THEN FALSE
  ELSE IF IsInf(a) /\ IsInf(b) THEN a[1] < b[1]
  ELSE a[1] * b[2] < b[1] * a[2]
FEq[a \in Float, b \in Float] == ~IsNaN(a) /\ ~IsNaN(b) /\ a = b
FLe[a \in Float, b \in Float] == FLt[a, b] \/ FEq[a, b]

(* std::floor of a finite float, as an int *)
Floor(a) == a[1] \div a[2]

(* the C++ operator % on ints: the result has the sign of the dividend *)
CMod(a, b) == IF a >= 0 THEN a % b ELSE -((-a) % b)

----------------------------------------------------------------------------
(* GMlib::Vector<float,3> *)

Vector == Float \X Float \X Float
Vec(x, y, z) == <<Flt(x), Flt(y), Flt(z)>>
ZeroVec == Vec(0, 0, 0)
VAdd[u \in Vector, v \in Vector] ==
  <<FAdd[u[1], v[1]], FAdd[u[2], v[2]], FAdd[u[3], v[3]]>>
VSub[u \in Vector, v \in Vector] ==
  <<FSub[u[1], v[1]], FSub[u[2], v[2]], FSub[u[3], v[3]]>>
VScale[a \in Float, v \in Vector] ==
  <<FMul[a, v[1]], FMul[a, v[2]], FMul[a, v[3]]>>

(* values a slot that was allocated and never written may hold *)
GarbageVecs == {ZeroVec, Vec(7, 7, 7)}

(* DVector<Vector<float,3>>::setDim(d): d slots, none of them written *)
SetDim(d) == {[k \in 1..d |-> g] : g \in GarbageVecs}

----------------------------------------------------------------------------
(* MyB_spline *)

(* what the memory behind an empty DVector<float> may hold, by cell *)
HeapCells == 0..(MaxN + 2)
HeapImages ==
  { [j \in HeapCells |-> Flt(0)],
    [j \in HeapCells |-> Flt(j)],
    [j \in HeapCells |-> IF j < 3 THEN Flt(0) ELSE Flt(1)] }

(* _knotVector[j] (j counted from 0); beyond getDim() the read is of memory
   the vector does not own *)
KnotAt(kv, j) == IF j \in 0..(Len(kv) - 1) THEN kv[j + 1] ELSE heap[j]

(* the control points of the scenario's B-spline *)
controlPoints ==
  << Vec(-1, 0, 0),
     <<Norm(-1, 2), Flt(2), Flt(0)>>,
     <<Flt(0), Norm(1, 2), Flt(0)>>,
     <<Norm(1, 2), Flt(-1), Flt(0)>>,
     Vec(1, 0, 0) >>

(* control-point sequences of the models, 3 .. MaxN points: the scenario's
   points in order (repeated once they run out), and the same reversed *)
Prefix(n) == [i \in 1..n |-> controlPoints[((i - 1) % Len(controlPoints)) + 1]]
Reverse(s) == [i \in 1..Len(s) |-> s[Len(s) + 1 - i]]
CtrlSeqs == UNION {{Prefix(n), Reverse(Prefix(n))} : n \in 3..MaxN}

generateKnotVector_maxOff(n) ==
  LET k == Degree
      m == n + k + 1
      maxValue == m - 2 * (k + 1) + 2
  IN [i \in 1..m |->
        LET j == i - 1 IN
        IF j >= m - (k + 1) THEN Flt(maxValue)
        ELSE IF j >= k + 1 THEN Flt(j - k)
        ELSE Flt(0)]

(* generateKnotVector for n control points: the knot vector it leaves *)
generateKnotVector(n) ==
  LET k == Degree
      m == n + k + 1
      maxValue == m - 2 * (k + 1) + 1
  IN [i \in 1..m |->
        LET j == i - 1 IN
        IF j >= m - (k + 1) THEN Flt(maxValue)
        ELSE IF j >= k + 1 THEN Flt(j - k)
        ELSE Flt(0)]

RECURSIVE evaluateBasis_noEnd(_, _, _, _, _)
evaluateBasis_noEnd(kv, nc, i, degree, t) ==
  IF degree = 0
  THEN IF FLe[KnotAt(kv, i), t] /\ FLt[t, KnotAt(kv, i + 1)]
       THEN Flt(1) ELSE Flt(0)
  ELSE
    LET denom1 == FSub[KnotAt(kv, i + degree), KnotAt(kv, i)]
        term1  == IF ~FEq[denom1, Flt(0)]
                  THEN FMul[FDiv[FSub[t, KnotAt(kv, i)], denom1],
                            evaluateBasis_noEnd(kv, nc, i, degree - 1, t)]
                  ELSE Flt(0)
        denom2 == FSub[KnotAt(kv, i + degree + 1), KnotAt(kv, i + 1)]
        term2  == IF ~FEq[denom2, Flt(0)]
                  THEN FMul[FDiv[FSub[KnotAt(kv, i + degree + 1), t], denom2],
                            evaluateBasis_noEnd(kv, nc, i + 1, degree - 1, t)]
                  ELSE Flt(0)
    IN FAdd[term1, term2]

RECURSIVE evaluateBasis_denom(_, _, _, _, _)
evaluateBasis_denom(kv, nc, i, degree, t) ==
  IF degree = 0
  THEN IF (FLe[KnotAt(kv, i), t] /\ FLt[t, KnotAt(kv, i + 1)])
          \/ (FEq[t, KnotAt(kv, Len(kv) - 1)] /\ i = nc - 1)
       THEN Flt(1) ELSE Flt(0)
  ELSE
    LET denom1 == FSub[KnotAt(kv, i + degree), KnotAt(kv, i)]
        term1  == IF ~FEq[denom1, Flt(0)]
                  THEN FMul[FDiv[FSub[t, KnotAt(kv, i)], denom1],
                            evaluateBasis_denom(kv, nc, i, degree - 1, t)]
                  ELSE Flt(0)
        denom2 == FSub[KnotAt(kv, i + degree + 1), KnotAt(kv, i + 1)]
        term2  == IF ~FEq[denom2, Flt(0)]
                  THEN FMul[FDiv[FSub[KnotAt(kv, i + degree), t], denom2],
                            evaluateBasis_denom(kv, nc, i + 1, degree - 1, t)]
                  ELSE Flt(0)
    IN FAdd[term1, term2]

(* evaluateBasis(i, degree, t) of a spline with knot vector kv and nc
   control points *)
RECURSIVE evaluateBasis(_, _, _, _, _)
evaluateBasis(kv, nc, i, degree, t) ==
  IF degree = 0
  THEN IF (FLe[KnotAt(kv, i), t] /\ FLt[t, KnotAt(kv, i + 1)])
          \/ (FEq[t, KnotAt(kv, Len(kv) - 1)] /\ i = nc - 1)
       THEN Flt(1) ELSE Flt(0)
  ELSE
    LET denom1 == FSub[KnotAt(kv, i + degree), KnotAt(kv, i)]
        term1  == IF ~FEq[denom1, Flt(0)]
                  THEN FMul[FDiv[FSub[t, KnotAt(kv, i)], denom1],
                            evaluateBasis(kv, nc, i, degree - 1, t)]
                  ELSE Flt(0)
        denom2 == FSub[KnotAt(kv, i + degree + 1), KnotAt(kv, i + 1)]
        term2  == IF ~FEq[denom2, Flt(0)]
                  THEN FMul[FDiv[FSub[KnotAt(kv, i + degree + 1), t], denom2],
                            evaluateBasis(kv, nc, i + 1, degree - 1, t)]
                  ELSE Flt(0)
    IN FAdd[term1, term2]

getStartP(kv) == KnotAt(kv, 2)
getEndP(kv) == KnotAt(kv, Len(kv) - 3)

(* the accumulation loop of eval: _p[0] after control points 0 .. i-1 *)
RECURSIVE CurveSum(_, _, _, _)
CurveSum(kv, cps, t, i) ==
  IF i = 0 THEN ZeroVec
  ELSE VAdd[CurveSum(kv, cps, t, i - 1),
            VScale[evaluateBasis(kv, Len(cps), i - 1, Degree, t), cps[i]]]

(* the sum of the basis values the loop of eval multiplies the control
   points by *)
RECURSIVE BasisSum(_, _, _, _)
BasisSum(kv, nc, t, i) ==
  IF i = 0 THEN Flt(0)
  ELSE FAdd[BasisSum(kv, nc, t, i - 1), evaluateBasis(kv, nc, i - 1, Degree, t)]

(* the parameters eval is called with *)
TGrid == {Norm(a, TSteps) : a \in 0..(TSteps * (MaxN - 2))}

(* MyB_spline::eval(t, d) *)
MyB_spline_eval(t, d) ==
  /\ pc = "ready"
  /\ FLe[getStartP(_knotVector), t] /\ FLe[t, getEndP(_knotVector)]
  /\ LET pos == CurveSum(_knotVector, _controlPoints, t, Len(_controlPoints))
     IN \E slots \in SetDim(d + 1) : _p' = [slots EXCEPT ![1] = pos]
  /\ t_arg' = t
  /\ UNCHANGED <<pc, _controlPoints, _knotVector, c, p, n_arg, N, row, heap,
                 _subdividedPoints, _degree, index>>

(* MyB_spline::MyB_spline(c) *)
MyB_spline_direct ==
  /\ pc = "new"
  /\ _controlPoints' = c
  /\ _knotVector' = generateKnotVector(Len(c))
  /\ pc' = "ready"
  /\ UNCHANGED <<_p, t_arg, c, p, n_arg, N, row, heap,
                 _subdividedPoints, _degree, index>>

InitDirect ==
  /\ pc = "new"
  /\ c \in CtrlSeqs
  /\ _controlPoints = <<>>
  /\ _knotVector = <<>>
  /\ _p = <<>>
  /\ t_arg = Flt(0)
  /\ p = <<>>
  /\ n_arg = 0
  /\ N = <<>>
  /\ row = 0
  /\ heap = [j \in HeapCells |-> Flt(0)]
  /\ _subdividedPoints = <<>>
  /\ _degree = 0
  /\ index = 0

NextDirect ==
  \/ MyB_spline_direct
  \/ \E t \in TGrid, d \in 0..MaxD : MyB_spline_eval(t, d)

SpecDirect == InitDirect /\ [][NextDirect]_vars

----------------------------------------------------------------------------
(* MyB_spline(p, n): leastSquaresFit(p, n), then generateKnotVector() *)

(* float t = static_cast<float>(i) / (m - 1) *)
FitT(i, m) == FDiv[Flt(i), Flt(m - 1)]

(* the span search of leastSquaresFit: the first j in k .. n-1 with
   knot[j] <= t < knot[j+1], and n-1 when there is none *)
FindSpan(kv, n, t) ==
  LET hits == {j \in Degree..(n - 1) :
                 FLe[KnotAt(kv, j), t] /\ FLt[t, KnotAt(kv, j + 1)]}
  IN IF hits = {} THEN n - 1
     ELSE CHOOSE j \in hits : \A h \in hits : j <= h

(* the loop "for d = 1 .. k" of leastSquaresFit for k = 2: N_i[0..2] *)
BasisFuns(kv, span, t) ==
  LET \* d = 1
      left1  == FSub[t, KnotAt(kv, span + 1 - 1)]
      right1 == FSub[KnotAt(kv, span + 1), t]
      \* r = 0
      temp10 == FDiv[Flt(1), FSub[KnotAt(kv, span + 0 + 1), KnotAt(kv, span + 1 - 1 + 0)]]
      a0     == FAdd[Flt(0), FMul[right1, temp10]]
      a1     == FMul[left1, temp10]
      \* d = 2
      left2  == FSub[t, KnotAt(kv, span + 1 - 2)]
      right2 == FSub[KnotAt(kv, span + 2), t]
      \* r = 0
      temp20 == FDiv[a0, FSub[KnotAt(kv, span + 0 + 1), KnotAt(kv, span + 1 - 2 + 0)]]
      b0     == FAdd[Flt(0), FMul[right2, temp20]]
      saved0 == FMul[left2, temp20]
      \* r = 1
      temp21 == FDiv[a1, FSub[KnotAt(kv, span + 1 + 1), KnotAt(kv, span + 1 - 2 + 1)]]
      b1     == FAdd[saved0, FMul[right2, temp21]]
      b2     == FMul[left2, temp21]
  IN <<b0, b1, b2>>

(* row i of the matrix N after the body of the loop over i *)
FitRow(kv, n, m, i) ==
  LET t    == FitT(i, m)
      span == FindSpan(kv, n, t)
      N_i  == BasisFuns(kv, span, t)
  IN [col \in 1..n |->
        IF (col - 1) \in (span - Degree)..span
        THEN N_i[(col - 1) - (span - Degree) + 1]
        ELSE Flt(0)]

(* leastSquaresFit up to its loop: _controlPoints.setDim(n), N(m, n, 0.0f) *)
leastSquaresFit_begin ==
  /\ pc = "new"
  /\ _controlPoints' \in SetDim(n_arg)
  /\ N' = [i \in 1..Len(p) |-> [j \in 1..n_arg |-> Flt(0)]]
  /\ row' = 0
  /\ pc' = "fit"
  /\ UNCHANGED <<_knotVector, _p, t_arg, c, p, n_arg, heap,
                 _subdividedPoints, _degree, index>>

(* one round of the loop over the sample points *)
leastSquaresFit_row ==
  /\ pc = "fit"
  /\ row < Len(p)
  /\ N' = [N EXCEPT ![row + 1] = FitRow(_knotVector, n_arg, Len(p), row)]
  /\ row' = row + 1
  /\ UNCHANGED <<pc, _controlPoints, _knotVector, _p, t_arg, c, p, n_arg, heap,
                 _subdividedPoints, _degree, index>>

(* leastSquaresFit returns; the constructor calls generateKnotVector() *)
MyB_spline_fit_generateKnotVector ==
  /\ pc = "fit"
  /\ row = Len(p)
  /\ _knotVector' = generateKnotVector(Len(_controlPoints))
  /\ pc' = "ready"
  /\ UNCHANGED <<_controlPoints, _p, t_arg, c, p, n_arg, N, row, heap,
                 _subdividedPoints, _degree, index>>

(* m sample points spread evenly over the domain of the spline that mode 1
   builds from the control points known *)
SamplesOn(known, m) ==
  LET kv == generateKnotVector(Len(known))
  IN [j \in 1..m |->
        CurveSum(kv, known,
                 FDiv[Flt((j - 1) * (Len(known) - 2)), Flt(m - 1)],
                 Len(known))]

InitFit ==
  /\ pc = "new"
  /\ c \in {Prefix(n) : n \in 3..MaxN}
  /\ n_arg = Len(c)
  /\ \E m \in 2..MaxM : p = SamplesOn(c, m)
  /\ heap \in HeapImages
  /\ _controlPoints = <<>>
  /\ _knotVector = <<>>
  /\ _p = <<>>
  /\ t_arg = Flt(0)
  /\ N = <<>>
  /\ row = 0
  /\ _subdividedPoints = <<>>
  /\ _degree = 0
  /\ index = 0

NextFit ==
  \/ leastSquaresFit_begin
  \/ leastSquaresFit_row
  \/ MyB_spline_fit_generateKnotVector
  \/ \E t \in TGrid, d \in 0..MaxD : MyB_spline_eval(t, d)

SpecFit == InitFit /\ [][NextFit]_vars

----------------------------------------------------------------------------
(* Properties of MyB_spline *)

(* C1. Partition of unity: once a spline is built in direct mode, the
   basis values evaluateBasis(i, 2, t), i = 0 .. n-1, sum to 1 at every
   parameter t strictly between getStartP() and getEndP(). *)
C1_PartitionOfUnity ==
  pc = "ready" =>
    \A t \in TGrid :
      (FLt[getStartP(_knotVector), t] /\ FLt[t, getEndP(_knotVector)])
        => BasisSum(_knotVector, Len(_controlPoints), t, Len(_controlPoints)) = Flt(1)

C1_Witness ==
  /\ pc = "ready"
  /\ Len(_controlPoints) = 4
  /\ Len(_p) > 0
  /\ t_arg = <<3, 4>>
  /\ evaluateBasis(_knotVector, 4, 0, Degree, t_arg) = <<1, 16>>
  /\ evaluateBasis(_knotVector, 4, 1, Degree, t_arg) = <<21, 32>>
  /\ evaluateBasis(_knotVector, 4, 2, Degree, t_arg) = <<9, 32>>
  /\ BasisSum(_knotVector, 4, t_arg, 4) = Flt(1)

(* C3. Knot vector shape: for n control points the knot vector has n+3
   entries, is non-decreasing, is 0 at indices 0..2, is i-2 at each index
   i in 3..n-1 and is n-2 at its last three indices. *)
C3_KnotShape ==
  pc = "ready" =>
    LET n == Len(_controlPoints) IN
      /\ Len(_knotVector) = n + 3
      /\ \A i \in 0..2 : KnotAt(_knotVector, i) = Flt(0)
      /\ \A i \in 3..(n - 1) : KnotAt(_knotVector, i) = Flt(i - 2)
      /\ \A i \in n..(n + 2) : KnotAt(_knotVector, i) = Flt(n - 2)
      /\ \A i \in 0..(n + 1) :
           FLe[KnotAt(_knotVector, i), KnotAt(_knotVector, i + 1)]

C3_Witness ==
  /\ pc = "ready"
  /\ Len(_controlPoints) = 4
  /\ _knotVector = <<Flt(0), Flt(0), Flt(0), Flt(1), Flt(2), Flt(2), Flt(2)>>

(* C4. Endpoint interpolation: eval at t = getStartP() leaves the first
   control point in _p[0], eval at t = getEndP() the last one. *)
C4_EndpointInterpolation ==
  (pc = "ready" /\ Len(_p) > 0) =>
    /\ t_arg = getStartP(_knotVector) => _p[1] = _controlPoints[1]
    /\ t_arg = getEndP(_knotVector)
         => _p[1] = _controlPoints[Len(_controlPoints)]

C4_Witness ==
  /\ pc = "ready"
  /\ Len(_p) > 0
  /\ t_arg = getEndP(_knotVector)
  /\ _p[1] = _controlPoints[Len(_controlPoints)]
  /\ _controlPoints[Len(_controlPoints)] # _controlPoints[1]

(* C7. Derivative slots: after eval(t, d) with d >= 1 every slot 1..d of
   the result is the zero vector. *)
C7_DerivativeSlotsZero ==
  pc = "ready" => \A k \in 2..Len(_p) : _p[k] = ZeroVec

(* C5. Least-squares exactness: a fit with n = 4 to 4 samples that lie on
   the spline of the control points c leaves _controlPoints equal to c. *)
C5_FitReproduces ==
  (pc = "ready" /\ n_arg = 4 /\ Len(p) = 4) => _controlPoints = c

(* C9. Basis-matrix assembly: every row i that leastSquaresFit has filled
   holds, column by column, the Cox-de Boor values B_{j,2}(i/(m-1)) of the
   clamped knot vector for n control points (which are 0 outside columns
   span-2 .. span). *)
C9_BasisRows ==
  pc \in {"fit", "ready"} =>
    \A i \in 0..(row - 1) : \A j \in 0..(n_arg - 1) :
      N[i + 1][j + 1] =
        evaluateBasis(generateKnotVector(n_arg), n_arg, j, Degree,
                      FitT(i, Len(p)))

(* C10. Knot vector ready before use: wherever _knotVector is about to be
   read (a round of the loop of leastSquaresFit, eval, getStartP, getEndP)
   it holds n+3 entries for the current control-point count n. *)
C10_KnotsReadyBeforeUse ==
  ((pc = "fit" /\ row < Len(p)) \/ pc = "ready")
    => Len(_knotVector) = Len(_controlPoints) + 3

----------------------------------------------------------------------------
(* ClosedSubdivisionCurve *)

Half == Norm(1, 2)

(* the control polygon of the scenario's subdivision curve *)
rectPoints == <<Vec(-1, -1, 0), Vec(1, -1, 0), Vec(1, 1, 0), Vec(-1, 1, 0)>>

(* control polygons of the models, 1 .. MaxPoly points: the scenario's
   corners in order (repeated once they run out) *)
PolySeqs ==
  {[i \in 1..n |-> rectPoints[((i - 1) % Len(rectPoints)) + 1]] : n \in 1..MaxPoly}

(* Step 1 of an iteration: newPoints after the midpoint loop *)
InsertMidpoints(points) ==
  LET numPoints == Len(points)
  IN [x \in 1..(2 * numPoints) |->
        LET i   == (x - 1) \div 2
            nxt == CMod(i + 1, numPoints)
        IN IF (x - 1) % 2 = 0
           THEN points[i + 1]
           ELSE VScale[Half, VAdd[points[i + 1], points[nxt + 1]]]]

(* one smoothing pass: smoothedPoints *)
SmoothPass(newPoints) ==
  [x \in 1..Len(newPoints) |->
     LET i    == x - 1
         prev == CMod(i - 1 + Len(newPoints), Len(newPoints))
     IN VScale[Half, VAdd[newPoints[i + 1], newPoints[prev + 1]]]]

(* Step 2 of an iteration: the loop "for avg = 1 .. _degree-1" from avg on *)
RECURSIVE Smooth(_, _, _)
Smooth(newPoints, avg, degree) ==
  IF avg < degree THEN Smooth(SmoothPass(newPoints), avg + 1, degree)
  ELSE newPoints

(* the loop "for iter = 0 .. _degree-1" from iter on *)
RECURSIVE Subdivide(_, _, _)
Subdivide(points, iter, degree) ==
  IF iter < degree
  THEN Subdivide(Smooth(InsertMidpoints(points), 1, degree), iter + 1, degree)
  ELSE points

laneRiesenfeldSubdivision_open(controlPts, degree) ==
  Subdivide(controlPts, 0, degree)

(* laneRiesenfeldSubdivision(): the _subdividedPoints it leaves *)
laneRiesenfeldSubdivision(controlPts, degree) ==
  LET points == Subdivide(controlPts, 0, degree)
  IN IF Len(points) > 1
     THEN [points EXCEPT ![Len(points)] = points[1]]
     ELSE points

(* _subdividedPoints[i] (i counted from 0); outside 0 .. getDim()-1 the
   read is of memory the vector does not own, which holds g *)
PointAt(i, g) ==
  IF i \in 0..(Len(_subdividedPoints) - 1) THEN _subdividedPoints[i + 1] ELSE g

(* the parameters the subdivision curve's eval is called with: -1 .. 2 *)
STGrid == {Norm(a, TSteps) : a \in (-TSteps)..(2 * TSteps)}

(* ClosedSubdivisionCurve::ClosedSubdivisionCurve(controlPts, degree) *)
ClosedSubdivisionCurve_new(degree) ==
  /\ pc = "new"
  /\ _controlPoints' = c
  /\ _degree' = degree
  /\ _subdividedPoints' = laneRiesenfeldSubdivision(c, degree)
  /\ pc' = "ready"
  /\ UNCHANGED <<_knotVector, _p, t_arg, c, p, n_arg, N, row, heap, index>>

(* ClosedSubdivisionCurve::eval(t, d) *)
ClosedSubdivisionCurve_eval(t, d) ==
  /\ pc = "ready"
  /\ \E slots \in SetDim(d + 1), g \in GarbageVecs :
       LET dim      == Len(_subdividedPoints)
           scaled_t == FMul[t, Flt(dim - 1)]
           idx      == CMod(Floor(scaled_t), dim)
           alpha    == FSub[scaled_t, Flt(idx)]
           p1       == PointAt(idx, g)
           p2       == PointAt(CMod(idx + 1, dim), g)
           pos      == VAdd[VScale[FSub[Flt(1), alpha], p1], VScale[alpha, p2]]
           next     == CMod(idx + 1, dim)
           prev     == CMod(idx - 1 + dim, dim)
           der      == VScale[Half, VSub[PointAt(next, g), PointAt(prev, g)]]
       IN /\ index' = idx
          /\ _p' = IF d > 0 THEN [slots EXCEPT ![1] = pos, ![2] = der]
                   ELSE [slots EXCEPT ![1] = pos]
  /\ t_arg' = t
  /\ UNCHANGED <<pc, _controlPoints, _knotVector, c, p, n_arg, N, row, heap,
                 _subdividedPoints, _degree>>

InitSubdiv ==
  /\ pc = "new"
  /\ c \in PolySeqs
  /\ _controlPoints = <<>>
  /\ _knotVector = <<>>
  /\ _p = <<>>
  /\ t_arg = Flt(0)
  /\ p = <<>>
  /\ n_arg = 0
  /\ N = <<>>
  /\ row = 0
  /\ heap = [j \in HeapCells |-> Flt(0)]
  /\ _subdividedPoints = <<>>
  /\ _degree = 0
  /\ index = 0

NextSubdiv ==
  \/ \E degree \in 1..MaxR : ClosedSubdivisionCurve_new(degree)
  \/ \E t \in STGrid, d \in 0..MaxD : ClosedSubdivisionCurve_eval(t, d)

SpecSubdiv == InitSubdiv /\ [][NextSubdiv]_vars

----------------------------------------------------------------------------
(* Properties of ClosedSubdivisionCurve *)

(* C2. Closure invariant: once the constructor has finished, and after
   any eval calls, the first and the last element of _subdividedPoints
   are identical whenever it holds more than one point. *)
C2_Closure ==
  pc = "ready" =>
    (Len(_subdividedPoints) > 1
       => _subdividedPoints[1] = _subdividedPoints[Len(_subdividedPoints)])

C2_Witness ==
  /\ pc = "ready"
  /\ _degree = 2
  /\ Len(_controlPoints) = 3
  /\ Len(_p) > 0
  /\ Len(_subdividedPoints) = 12
  /\ _subdividedPoints[1] = _subdividedPoints[12]
  /\ Subdivide(_controlPoints, 0, _degree)[12] # _subdividedPoints[1]

(* C6. Closed-curve wrapping: the lower index eval computes and reads
   _subdividedPoints at lies in 0 .. point-count-1, for every t. *)
C6_IndexWrapped ==
  (pc = "ready" /\ Len(_p) > 0) => index \in 0..(Len(_subdividedPoints) - 1)

====
